---- MODULE Spec2Model ----
(***************************************************************************)
(* Model of ecstatic_system (src/src/lib.rs): a registry, EcstaticSystems, *)
(* mapping category names to vectors of ThreadHandle.  Each ThreadHandle   *)
(* owns the sending end of a bounded channel (mpsc::sync_channel(60)) and  *)
(* the JoinHandle of a worker thread that loops on rx.recv(), calling the  *)
(* user callback once per token and leaving the loop when recv() fails.    *)
(*                                                                         *)
(* The controller is the single thread that owns the registry; it runs one *)
(* public operation at a time, in the steps its code takes.  The workers   *)
(* run concurrently with it.  A callback is caller-supplied code: every    *)
(* invocation either returns or panics.  A panic of the controller itself  *)
(* (an unwrap() of None) ends the operation with result "panic"; the       *)
(* registry is left as it was and a caller that catches the unwind can go  *)
(* on using it.                                                            *)
(*                                                                         *)
(* invoked, sent, sigs, wcat, joined and the fields found, failed and got  *)
(* of ctl are history: they record what happened and steer nothing.        *)
(***************************************************************************)
EXTENDS Integers, Sequences, FiniteSets, TLC

\* ------------------------------------------------------------------ bounds
\* Number of worker threads ever spawned (register_static calls).
MaxWorkers == 2
\* Number of signal / signal_all calls.
MaxSignals == 2
\* Largest burst K sent by the direct static_system_create scenario.
MaxK == 62

\* mpsc::sync_channel(60)
Capacity == 60

Categories == {"testing", "testing2"}
Workers == 1..MaxWorkers
\* Option::None for the two Option fields of ThreadHandle (worker ids are >= 1).
None == 0

VARIABLES
    handles,   \* EcstaticSystems.handles: category -> Seq(ThreadHandle)
    chan,      \* per worker: its channel (queue length, sender alive, receiver alive)
    thread,    \* per worker: where its thread is
    joined,    \* per worker: its JoinHandle has been joined
    invoked,   \* per worker: callback invocations started
    sent,      \* per worker: tokens accepted by its channel (send returned Ok)
    sigs,      \* per worker: public signals addressed to it (history)
    wcat,      \* per worker: category it was registered under (history)
    nextId,    \* next worker id to spawn
    nsig,      \* signal / signal_all calls made
    ctl        \* the controller: the public operation in progress

vars == <<handles, chan, thread, joined, invoked, sent, sigs, wcat, nextId, nsig, ctl>>

\* ------------------------------------------------------------ ThreadHandle
\* impl Default for ThreadHandle
DefaultHandle == [sx |-> None, join_handle |-> None]

\* HashMap::get / get_mut: an Option of the category's vector.
Get(h, c) == IF c \in DOMAIN h THEN [some |-> TRUE, val |-> h[c]]
             ELSE [some |-> FALSE, val |-> <<>>]

\* Faulty variant of Keys: the iteration yields one key only (the loop over the
\* categories is left after its first round).
KeysFirstOnly(h) == IF DOMAIN h = {} THEN {} ELSE {CHOOSE k \in DOMAIN h : TRUE}

\* HashMap::keys
Keys(h) == DOMAIN h

\* Faulty variant of Remove: the whole map is emptied (clear() instead of
\* remove(category)).
RemoveAll(h, c) == [k \in {} |-> <<>>]

\* Faulty variant of Remove: the key is left in the map (the remove call at the
\* end of teardown is lost).
RemoveNothing(h, c) == h

\* HashMap::remove
Remove(h, c) == [k \in DOMAIN h \ {c} |-> h[k]]

\* HashMap::insert
Insert(h, c, v) == [k \in DOMAIN h \cup {c} |-> IF k = c THEN v ELSE h[k]]

\* Faulty variant of LazyInit: the category is (re)created empty whether or not it
\* exists (the `inited` test is lost).
LazyInitAlways(h, c) == Insert(h, c, <<>>)

\* lazy_init_category
LazyInit(h, c) == IF Get(h, c).some THEN h ELSE Insert(h, c, <<>>)

\* ------------------------------------------------------------------ state
\* The controller between public operations.  It remembers the last
\* operation: its name and category, how it ended ("ok": it returned, "panic":
\* an unwrap() panicked), whether its category lookup found the category,
\* whether a Result it discarded was an Err, and (got) how many tokens each
\* worker's channel accepted from it.  blocked says that the controller is
\* parked inside send() on a full channel.
NoneGot == [w \in Workers |-> 0]
IdleCtl(op, c, res, found, failed) ==
    [pc |-> "idle", op |-> op, cat |-> c, i |-> 0, keys |-> {},
     th |-> DefaultHandle, result |-> res, found |-> found, failed |-> failed,
     got |-> NoneGot, blocked |-> FALSE]

Init ==
    /\ handles = [k \in {} |-> <<>>]
    /\ chan = [w \in Workers |-> [queue |-> 0, sx |-> FALSE, rx |-> FALSE]]
    /\ thread = [w \in Workers |-> "none"]
    /\ joined = [w \in Workers |-> FALSE]
    /\ invoked = [w \in Workers |-> 0]
    /\ sent = [w \in Workers |-> 0]
    /\ sigs = [w \in Workers |-> 0]
    /\ wcat = [w \in Workers |-> "none"]
    /\ nextId = 1
    /\ nsig = 0
    /\ ctl = IdleCtl("new", "none", "ok", TRUE, FALSE)

\* Workers whose handle is stored in sequence s.
InSeq(s) == {s[j].join_handle : j \in DOMAIN s} \ {None}
\* Workers stored anywhere in the mapping.
InMap == UNION {InSeq(handles[k]) : k \in DOMAIN handles}

\* ----------------------------------------------------------------- worker
\* Faulty variant of Dequeue: one recv() empties the buffer, as if the tokens were a
\* single wake-up flag.
DequeueAll(q) == 0

\* rx.recv() takes one token out of the buffer.
Dequeue(q) == q - 1

\* Faulty variant of RecvOk: recv() returns Ok(()) whether or not a token is
\* buffered (a spurious wake-up).
RecvOkSpurious(w) == TRUE

\* rx.recv() returns Ok(()): a token is buffered.
RecvOk(w) == chan[w].queue > 0

\* Faulty variant of RecvClosed: recv() fails as soon as the sender is gone, even
\* with tokens still buffered.
RecvClosedEarly(w) == ~chan[w].sx

\* rx.recv() returns Err(RecvError): buffer empty and every sender dropped.
RecvClosed(w) == chan[w].queue = 0 /\ ~chan[w].sx

\* Ok(_) => f(arc_data.clone())
WorkerRecv(w) ==
    /\ thread[w] = "recv"
    /\ RecvOk(w)
    /\ chan' = [chan EXCEPT ![w].queue = Dequeue(@)]
    /\ invoked' = [invoked EXCEPT ![w] = @ + 1]
    /\ thread' = [thread EXCEPT ![w] = "callback"]
    /\ UNCHANGED <<handles, joined, sent, sigs, wcat, nextId, nsig, ctl>>

\* the callback returns; the loop goes back to rx.recv()
WorkerReturn(w) ==
    /\ thread[w] = "callback"
    /\ thread' = [thread EXCEPT ![w] = "recv"]
    /\ UNCHANGED <<handles, chan, joined, invoked, sent, sigs, wcat, nextId, nsig, ctl>>

\* the callback panics: the thread unwinds, dropping rx and with it every
\* token still buffered.
WorkerPanic(w) ==
    /\ thread[w] = "callback"
    /\ thread' = [thread EXCEPT ![w] = "panicked"]
    /\ chan' = [chan EXCEPT ![w].rx = FALSE, ![w].queue = 0]
    /\ UNCHANGED <<handles, joined, invoked, sent, sigs, wcat, nextId, nsig, ctl>>

\* Err(_) => break: the thread function returns, dropping rx.
WorkerExit(w) ==
    /\ thread[w] = "recv"
    /\ RecvClosed(w)
    /\ thread' = [thread EXCEPT ![w] = "exited"]
    /\ chan' = [chan EXCEPT ![w].rx = FALSE, ![w].queue = 0]
    /\ UNCHANGED <<handles, joined, invoked, sent, sigs, wcat, nextId, nsig, ctl>>

\* Faulty variant of Finished: join() does not wait for the thread (the handle is
\* dropped, detaching the thread, instead of joined).
FinishedOrDetached(w) == TRUE

\* JoinHandle::join returns once the thread has finished, either way.
Finished(w) == thread[w] \in {"exited", "panicked"}

\* JoinHandle::join: Err(payload) if the thread panicked, Ok(()) otherwise.
JoinResult(w) == IF thread[w] = "panicked" THEN "Err" ELSE "Ok"

\* --------------------------------------------------------------- channel
\* Faulty variant of CanSend: the channel is unbounded (mpsc::channel instead
\* of mpsc::sync_channel), send never waits.
CanSendUnbounded(w) == TRUE

\* Faulty variant of CanSend: a send() to a channel whose receiver is gone
\* waits, as on a full buffer, instead of returning Err.
CanSendWhileReceiving(w) == chan[w].rx /\ chan[w].queue < Capacity

\* SyncSender::send blocks while the buffer is full and the receiver alive.
CanSend(w) == ~chan[w].rx \/ chan[w].queue < Capacity

\* SyncSender::send: Ok(()) if the receiver is alive, Err(SendError) if not.
SendResult(w) == IF chan[w].rx THEN "Ok" ELSE "Err"

\* The channel after send: the token is buffered only when send returns Ok.
ChanAfterSend(w) == IF SendResult(w) = "Ok" THEN [chan EXCEPT ![w].queue = @ + 1] ELSE chan
SentAfterSend(w) == IF SendResult(w) = "Ok" THEN [sent EXCEPT ![w] = @ + 1] ELSE sent
GotAfterSend(w) == IF SendResult(w) = "Ok" THEN [ctl.got EXCEPT ![w] = @ + 1] ELSE ctl.got

\* Faulty variant of NewHandle: the sender is not stored in the handle.
NewHandleNoSender(w) == [sx |-> None, join_handle |-> w]

\* mpsc::sync_channel(60) and thread::spawn: worker w starts in its loop.
ChanAfterCreate(w) == [chan EXCEPT ![w] = [queue |-> 0, sx |-> TRUE, rx |-> TRUE]]
ThreadAfterCreate(w) == [thread EXCEPT ![w] = "recv"]
\* ThreadHandle { sx: Some(sx), join_handle: Some(handle) }
NewHandle(w) == [sx |-> w, join_handle |-> w]

\* Faulty variant of ChanAfterDrop: the sender is taken out of the handle
\* but kept alive instead of dropped, so the channel never closes.
ChanAfterTakeOnly(w) == chan

\* Faulty variant of ChanAfterDrop: the senders of every worker of w's category
\* are dropped together.
ChanAfterDropCategory(w) ==
    [v \in Workers |-> IF wcat[v] = wcat[w] THEN [chan[v] EXCEPT !.sx = FALSE]
                                           ELSE chan[v]]

\* mem::drop(sender): the channel of worker w loses its only sender.
ChanAfterDrop(w) == IF w = None THEN chan ELSE [chan EXCEPT ![w].sx = FALSE]

\* ------------------------------------------------------------ controller
Running(pc, op, c, i, keys, th, failed) ==
    [pc |-> pc, op |-> op, cat |-> c, i |-> i, keys |-> keys,
     th |-> th, result |-> "none", found |-> TRUE, failed |-> failed,
     got |-> NoneGot, blocked |-> FALSE]

\* ---- register_static
\* let th = self.static_system_create(data, f);
RegisterStatic(c) ==
    /\ ctl.pc = "idle"
    /\ nextId <= MaxWorkers
    /\ chan' = ChanAfterCreate(nextId)
    /\ thread' = ThreadAfterCreate(nextId)
    /\ wcat' = [wcat EXCEPT ![nextId] = c]
    /\ nextId' = nextId + 1
    /\ ctl' = Running("reg_lazy", "register", c, 0, {}, NewHandle(nextId), FALSE)
    /\ UNCHANGED <<handles, joined, invoked, sent, sigs, nsig>>

\* self.lazy_init_category(category);
RegisterLazyInit ==
    /\ ctl.pc = "reg_lazy"
    /\ handles' = LazyInit(handles, ctl.cat)
    /\ ctl' = [ctl EXCEPT !.pc = "reg_push"]
    /\ UNCHANGED <<chan, thread, joined, invoked, sent, sigs, wcat, nextId, nsig>>

\* self.handles.get_mut(category).unwrap().push(th);
RegisterPush ==
    /\ ctl.pc = "reg_push"
    /\ IF Get(handles, ctl.cat).some
       THEN /\ handles' = [handles EXCEPT ![ctl.cat] = Append(@, ctl.th)]
            /\ ctl' = IdleCtl("register", ctl.cat, "ok", TRUE, FALSE)
       ELSE /\ handles' = handles
            /\ ctl' = IdleCtl("register", ctl.cat, "panic", FALSE, FALSE)
    /\ UNCHANGED <<chan, thread, joined, invoked, sent, sigs, wcat, nextId, nsig>>

\* ---- signal
\* Faulty variant of SignalHandles: a missing category reads as an empty one
\* (unwrap_or_default instead of unwrap).
SignalHandlesOrEmpty(c) == [some |-> TRUE, val |-> Get(handles, c).val]

\* Faulty variant of SignalHandles: the loop runs over the handles of every
\* category (self.handles.values().flatten()), not only the named one.
RECURSIVE AllHandles(_)
AllHandles(ks) ==
    IF ks = {} THEN <<>>
    ELSE LET k == CHOOSE x \in ks : TRUE
         IN handles[k] \o AllHandles(ks \ {k})
SignalHandlesEvery(c) == [some |-> Get(handles, c).some, val |-> AllHandles(DOMAIN handles)]

\* self.handles.get(category) of signal
SignalHandles(c) == Get(handles, c)

\* The controller once the for loop of signal(c) is over.
SignalDone(op, c, keys, failed) ==
    IF op = "signal_all"
    THEN IF keys = {} THEN IdleCtl(op, "none", "ok", TRUE, failed)
         ELSE Running("all_next", op, "none", 0, keys, DefaultHandle, failed)
    ELSE IdleCtl(op, c, "ok", TRUE, failed)

\* The controller entering signal(c): unwrap() of the lookup, then the loop.
SignalEnter(op, c, keys, failed) ==
    IF ~SignalHandles(c).some THEN IdleCtl(op, c, "panic", FALSE, failed)
    ELSE IF Len(SignalHandles(c).val) = 0 THEN SignalDone(op, c, keys, failed)
    ELSE Running("sig_loop", op, c, 1, keys, DefaultHandle, failed)

\* pub fn signal(&self, category: &str), as one of at most max signalling
\* calls
SignalCall(c, max) ==
    /\ ctl.pc = "idle"
    /\ nsig < max
    /\ nsig' = nsig + 1
    /\ sigs' = [w \in Workers |->
                  IF c \in DOMAIN handles /\ w \in InSeq(handles[c])
                  THEN sigs[w] + 1 ELSE sigs[w]]
    /\ ctl' = SignalEnter("signal", c, {}, FALSE)
    /\ UNCHANGED <<handles, chan, thread, joined, invoked, sent, wcat, nextId>>

Signal(c) == SignalCall(c, MaxSignals)

\* th.sx.as_ref().unwrap().send(());  the Result of send is discarded
SignalSend ==
    /\ ctl.pc = "sig_loop"
    /\ LET s == SignalHandles(ctl.cat).val
           w == s[ctl.i].sx
       IN IF w = None
          THEN /\ ctl' = [IdleCtl(ctl.op, ctl.cat, "panic", TRUE, ctl.failed)
                              EXCEPT !.got = ctl.got]
               /\ UNCHANGED <<chan, sent>>
          ELSE /\ CanSend(w)
               /\ chan' = ChanAfterSend(w)
               /\ sent' = SentAfterSend(w)
               /\ LET failed == ctl.failed \/ SendResult(w) = "Err"
                      got == GotAfterSend(w)
                  IN ctl' = IF ctl.i < Len(s)
                            THEN [ctl EXCEPT !.i = @ + 1, !.failed = failed, !.got = got]
                            ELSE [SignalDone(ctl.op, ctl.cat, ctl.keys, failed)
                                      EXCEPT !.got = got]
    /\ UNCHANGED <<handles, thread, joined, invoked, sigs, wcat, nextId, nsig>>

\* ---- signal_all
\* pub fn signal_all(&self): for k in self.handles.keys(), as one of at most
\* max signalling calls
SignalAllCall(max) ==
    /\ ctl.pc = "idle"
    /\ nsig < max
    /\ nsig' = nsig + 1
    /\ sigs' = [w \in Workers |-> IF w \in InMap THEN sigs[w] + 1 ELSE sigs[w]]
    /\ ctl' = SignalDone("signal_all", "none", Keys(handles), FALSE)
    /\ UNCHANGED <<handles, chan, thread, joined, invoked, sent, wcat, nextId>>

SignalAll == SignalAllCall(MaxSignals)

\* self.signal(k) for the next key, in the map's (unspecified) order
SignalAllNext ==
    /\ ctl.pc = "all_next"
    /\ \E k \in ctl.keys :
          ctl' = [SignalEnter("signal_all", k, ctl.keys \ {k}, ctl.failed)
                     EXCEPT !.got = ctl.got]
    /\ UNCHANGED <<handles, chan, thread, joined, invoked, sent, sigs, wcat, nextId, nsig>>

\* ---- drop_join_category
\* self.handles.get_mut(category) of drop_join_category
DropHandles(c) == Get(handles, c)

\* pub fn drop_join_category(&mut self, category: &str)
DropJoinCategory(c) ==
    /\ ctl.pc = "idle"
    /\ IF DropHandles(c).some
       THEN /\ handles' = handles
            /\ ctl' = IF Len(DropHandles(c).val) = 0
                      THEN Running("dj_remove", "drop_join", c, 0, {}, DefaultHandle, FALSE)
                      ELSE Running("dj_take", "drop_join", c, 1, {}, DefaultHandle, FALSE)
       ELSE /\ handles' = Remove(handles, c)
            /\ ctl' = IdleCtl("drop_join", c, "ok", FALSE, FALSE)
    /\ UNCHANGED <<chan, thread, joined, invoked, sent, sigs, wcat, nextId, nsig>>

\* let mut handle = mem::take(th);
DropJoinTake ==
    /\ ctl.pc = "dj_take"
    /\ ctl' = [ctl EXCEPT !.pc = "dj_drop", !.th = handles[ctl.cat][ctl.i]]
    /\ handles' = [handles EXCEPT ![ctl.cat][ctl.i] = DefaultHandle]
    /\ UNCHANGED <<chan, thread, joined, invoked, sent, sigs, wcat, nextId, nsig>>

\* Faulty variant of DropJoinDropSender: the statement is missing, teardown goes
\* from mem::take straight to the join with the sender still in the handle.
DropJoinKeepSender ==
    /\ ctl.pc = "dj_drop"
    /\ ctl' = [ctl EXCEPT !.pc = "dj_join"]
    /\ UNCHANGED <<handles, chan, thread, joined, invoked, sent, sigs, wcat, nextId, nsig>>

\* mem::drop(handle.sx.take());
DropJoinDropSender ==
    /\ ctl.pc = "dj_drop"
    /\ chan' = ChanAfterDrop(ctl.th.sx)
    /\ ctl' = [ctl EXCEPT !.pc = "dj_join", !.th.sx = None]
    /\ UNCHANGED <<handles, thread, joined, invoked, sent, sigs, wcat, nextId, nsig>>

\* handle.join_handle.take().unwrap().join();  the Result of join is discarded
DropJoinJoin ==
    /\ ctl.pc = "dj_join"
    /\ LET w == ctl.th.join_handle
       IN IF w = None
          THEN /\ ctl' = IdleCtl("drop_join", ctl.cat, "panic", TRUE, ctl.failed)
               /\ joined' = joined
          ELSE /\ Finished(w)
               /\ joined' = [joined EXCEPT ![w] = TRUE]
               /\ LET failed == ctl.failed \/ JoinResult(w) = "Err"
                  IN ctl' = IF ctl.i < Len(handles[ctl.cat])
                            THEN [ctl EXCEPT !.pc = "dj_take", !.i = @ + 1,
                                             !.th = DefaultHandle, !.failed = failed]
                            ELSE [ctl EXCEPT !.pc = "dj_remove",
                                             !.th = DefaultHandle, !.failed = failed]
    /\ UNCHANGED <<handles, chan, thread, invoked, sent, sigs, wcat, nextId, nsig>>

\* Faulty variant of DropJoinRemove: teardown returns without removing the
\* category, leaving its taken-out records in the mapping.
DropJoinKeepEntry ==
    /\ ctl.pc = "dj_remove"
    /\ ctl' = IdleCtl("drop_join", ctl.cat, "ok", TRUE, ctl.failed)
    /\ UNCHANGED <<handles, chan, thread, joined, invoked, sent, sigs, wcat, nextId, nsig>>

\* Faulty variant of DropJoinRemove: the category's vector is cleared and the
\* key stays in the mapping.
DropJoinClearEntry ==
    /\ ctl.pc = "dj_remove"
    /\ handles' = Insert(handles, ctl.cat, <<>>)
    /\ ctl' = IdleCtl("drop_join", ctl.cat, "ok", TRUE, ctl.failed)
    /\ UNCHANGED <<chan, thread, joined, invoked, sent, sigs, wcat, nextId, nsig>>

\* self.handles.remove(category);
DropJoinRemove ==
    /\ ctl.pc = "dj_remove"
    /\ handles' = Remove(handles, ctl.cat)
    /\ ctl' = IdleCtl("drop_join", ctl.cat, "ok", TRUE, ctl.failed)
    /\ UNCHANGED <<chan, thread, joined, invoked, sent, sigs, wcat, nextId, nsig>>

Next ==
    \/ \E c \in Categories : RegisterStatic(c)
    \/ RegisterLazyInit
    \/ RegisterPush
    \/ \E c \in Categories : Signal(c)
    \/ SignalSend
    \/ SignalAll
    \/ SignalAllNext
    \/ \E c \in Categories : DropJoinCategory(c)
    \/ DropJoinTake
    \/ DropJoinDropSender
    \/ DropJoinJoin
    \/ DropJoinRemove
    \/ \E w \in Workers : WorkerRecv(w)
    \/ \E w \in Workers : WorkerReturn(w)
    \/ \E w \in Workers : WorkerPanic(w)
    \/ \E w \in Workers : WorkerExit(w)

Spec == Init /\ [][Next]_vars

\* ------------------------------------------------------------- fairness
\* Every thread is an OS thread and is scheduled fairly: a worker that can
\* take a token, or see its channel closed, eventually does; a callback that
\* was invoked eventually ends (returns or panics); and the controller, once
\* inside a public operation, goes on with its next statement whenever that
\* statement is not blocked.  Nothing obliges the caller to start a new
\* operation.
WorkerFairness ==
    \A w \in Workers :
        /\ WF_vars(WorkerRecv(w))
        /\ WF_vars(WorkerReturn(w) \/ WorkerPanic(w))
        /\ WF_vars(WorkerExit(w))

ControllerFairness ==
    /\ WF_vars(RegisterLazyInit)
    /\ WF_vars(RegisterPush)
    /\ WF_vars(SignalSend)
    /\ WF_vars(SignalAllNext)
    /\ WF_vars(DropJoinTake)
    /\ WF_vars(DropJoinDropSender)
    /\ WF_vars(DropJoinJoin)
    /\ WF_vars(DropJoinRemove)

SpecFair == Spec /\ WorkerFairness /\ ControllerFairness

\* ------------------------------------------- direct use of one worker
\* tests::test_static_system_create, for any burst length K <= MaxK: the
\* caller holds the ThreadHandle itself, sends K tokens through its sender,
\* drops the sender and joins the thread.  ctl.i counts the sends made.

\* let th = sys.static_system_create(&ATOMIC, f);
TestCreate ==
    /\ ctl.pc = "idle"
    /\ nextId = 1
    /\ chan' = ChanAfterCreate(nextId)
    /\ thread' = ThreadAfterCreate(nextId)
    /\ nextId' = nextId + 1
    /\ ctl' = Running("t_send", "create", "none", 0, {}, NewHandle(nextId), FALSE)
    /\ UNCHANGED <<handles, joined, invoked, sent, sigs, wcat, nsig>>

\* th.sx.as_ref().unwrap().send(());  the call finds the buffer full and the
\* receiver alive: the calling thread parks inside send().
TestSendBlock ==
    /\ ctl.pc = "t_send"
    /\ ctl.i < MaxK
    /\ ~ctl.blocked
    /\ ~CanSend(ctl.th.sx)
    /\ ctl' = [ctl EXCEPT !.blocked = TRUE]
    /\ UNCHANGED <<handles, chan, thread, joined, invoked, sent, sigs, wcat, nextId, nsig>>

\* th.sx.as_ref().unwrap().send(());  send() returns, at once or after having
\* been parked; its Result is discarded.
TestSend ==
    /\ ctl.pc = "t_send"
    /\ ctl.i < MaxK
    /\ CanSend(ctl.th.sx)
    /\ chan' = ChanAfterSend(ctl.th.sx)
    /\ sent' = SentAfterSend(ctl.th.sx)
    /\ ctl' = [ctl EXCEPT !.i = @ + 1,
                          !.failed = @ \/ SendResult(ctl.th.sx) = "Err",
                          !.got = GotAfterSend(ctl.th.sx),
                          !.blocked = FALSE]
    /\ UNCHANGED <<handles, thread, joined, invoked, sigs, wcat, nextId, nsig>>

\* mem::drop(th.sx);
TestDropSender ==
    /\ ctl.pc = "t_send"
    /\ ~ctl.blocked
    /\ chan' = ChanAfterDrop(ctl.th.sx)
    /\ ctl' = [ctl EXCEPT !.pc = "t_join", !.th.sx = None]
    /\ UNCHANGED <<handles, thread, joined, invoked, sent, sigs, wcat, nextId, nsig>>

\* th.join_handle.unwrap().join();
TestJoin ==
    /\ ctl.pc = "t_join"
    /\ Finished(ctl.th.join_handle)
    /\ joined' = [joined EXCEPT ![ctl.th.join_handle] = TRUE]
    /\ ctl' = [ctl EXCEPT !.pc = "t_done", !.result = "ok",
                          !.failed = @ \/ JoinResult(ctl.th.join_handle) = "Err"]
    /\ UNCHANGED <<handles, chan, thread, invoked, sent, sigs, wcat, nextId, nsig>>

NextCreate ==
    \/ TestCreate
    \/ TestSendBlock
    \/ TestSend
    \/ TestDropSender
    \/ TestJoin
    \/ \E w \in Workers : WorkerRecv(w)
    \/ \E w \in Workers : WorkerReturn(w)
    \/ \E w \in Workers : WorkerPanic(w)
    \/ \E w \in Workers : WorkerExit(w)

SpecCreate == Init /\ [][NextCreate]_vars

\* ------------------------------------------------- a burst of signals
\* The registry with one worker, signalled up to MaxK times through signal
\* and signal_all on its category: enough calls to fill the worker's
\* channel.  Threads are scheduled fairly.
NextBurst ==
    \/ \E c \in Categories : nextId = 1 /\ RegisterStatic(c)
    \/ RegisterLazyInit
    \/ RegisterPush
    \/ \E c \in DOMAIN handles : SignalCall(c, MaxK)
    \/ SignalSend
    \/ DOMAIN handles # {} /\ SignalAllCall(MaxK)
    \/ SignalAllNext
    \/ \E w \in Workers : WorkerRecv(w)
    \/ \E w \in Workers : WorkerReturn(w)
    \/ \E w \in Workers : WorkerPanic(w)

SpecBurst == Init /\ [][NextBurst]_vars /\ WorkerFairness /\ ControllerFairness

\* ================================================================ claims
\* The controller is back from the public operation op.
Returned(op) == ctl.pc = "idle" /\ ctl.op = op

\* Workers ever pushed under category c.
RegisteredUnder(c) == {w \in Workers : wcat[w] = c}

\* ---------------------------------------------------------------- C1
\* C1: when drop_join_category(c) returns, every worker of c that was
\* registered before exactly one signal addressed to c, and whose callback
\* did not panic, has been invoked exactly once: N workers registered before
\* the signal make exactly N invocations, none twice and none skipped.
C1_OneInvocationPerWorker ==
    Returned("drop_join") /\ ctl.result = "ok" =>
        \A w \in RegisteredUnder(ctl.cat) :
            (sigs[w] = 1 /\ thread[w] # "panicked") => invoked[w] = 1

\* Two workers registered under one category, one signal, teardown returned.
C1_Witness ==
    /\ Returned("drop_join") /\ ctl.result = "ok" /\ ctl.found
    /\ Cardinality(RegisteredUnder(ctl.cat)) = 2
    /\ \A w \in RegisteredUnder(ctl.cat) :
          sigs[w] = 1 /\ thread[w] = "exited" /\ invoked[w] = 1 /\ joined[w]

\* ---------------------------------------------------------------- C2
\* The direct scenario is over: K = ctl.i sends were made through the
\* worker's sender, the sender was dropped and the thread joined.
TestDone == ctl.pc = "t_done"

C2_WitnessZero ==
    TestDone /\ ctl.i = 0 /\ thread[1] = "exited" /\ invoked[1] = 0

\* ---------------------------------------------------------------- C3
\* C3 as stated: when drop_join_category(c) returns, c is no key of the
\* mapping, every worker registered under c has left its loop and been
\* joined, and every token sent to such a worker has been consumed by one
\* invocation, its queue being empty.
C3_TornDownAndDrained ==
    Returned("drop_join") /\ ctl.result = "ok" =>
        /\ ctl.cat \notin DOMAIN handles
        /\ \A w \in RegisteredUnder(ctl.cat) :
              /\ Finished(w) /\ joined[w]
              /\ chan[w].queue = 0
              /\ invoked[w] = sent[w]

\* What the code does guarantee at that point: the same, except that a worker
\* whose callback panicked has consumed its tokens only up to the panicking
\* invocation; its thread has terminated (abnormally) and been joined, and
\* the tokens it left are discarded with its receiver.
C3_TornDownAndDrainedUnlessPanic ==
    Returned("drop_join") /\ ctl.result = "ok" =>
        /\ ctl.cat \notin DOMAIN handles
        /\ \A w \in RegisteredUnder(ctl.cat) :
              /\ Finished(w) /\ joined[w]
              /\ ~chan[w].sx /\ ~chan[w].rx
              /\ chan[w].queue = 0
              /\ invoked[w] <= sent[w]
              /\ thread[w] = "exited" => invoked[w] = sent[w]

\* A teardown of an existing category has returned; one of its workers had
\* been sent two tokens and has consumed both.
C3_Witness ==
    /\ Returned("drop_join") /\ ctl.result = "ok" /\ ctl.found
    /\ \E w \in RegisteredUnder(ctl.cat) :
          thread[w] = "exited" /\ joined[w] /\ sent[w] = 2 /\ invoked[w] = 2

\* ---------------------------------------------------------------- C4
\* The step is a call signal(c) with c no key of the mapping.
SignalAbsentCall ==
    /\ ctl.pc = "idle"
    /\ nsig' # nsig
    /\ ctl'.op = "signal"
    /\ ctl'.cat \notin DOMAIN handles

\* C4: signal(c) on a category that is no key of the mapping ends at once in
\* an error (the unwrap panics), invokes no callback, enqueues no token on
\* any worker and leaves the mapping as it was.
C4_SignalAbsentFails ==
    [][SignalAbsentCall =>
          /\ ctl'.pc = "idle" /\ ctl'.result = "panic"
          /\ handles' = handles
          /\ chan' = chan /\ sent' = sent
          /\ invoked' = invoked /\ thread' = thread]_vars

\* signal was called on a category that had been torn down, while a live
\* worker of another category existed.
C4_Witness ==
    /\ Returned("signal") /\ ctl.result = "panic" /\ ~ctl.found
    /\ \E w \in RegisteredUnder(ctl.cat) : joined[w]
    /\ \E w \in InMap : thread[w] = "recv" /\ sent[w] = 0

\* signal was called on a category that was never registered.
C4_WitnessNever ==
    /\ Returned("signal") /\ ctl.result = "panic" /\ ~ctl.found
    /\ RegisteredUnder(ctl.cat) = {}
    /\ InMap # {}

\* ---------------------------------------------------------------- C5
\* The step is a call drop_join_category(c) with c no key of the mapping.
DropAbsentCall ==
    /\ ctl.pc = "idle"
    /\ ctl' # ctl
    /\ ctl'.op = "drop_join"
    /\ ctl'.cat \notin DOMAIN handles

\* C5: drop_join_category on an absent category returns at once without
\* error, joins nothing, and changes neither the mapping nor any worker; and
\* a category is absent once a teardown of it has returned, so a second
\* consecutive call is such a no-op.
C5_DropAbsentNoOp ==
    /\ [][DropAbsentCall =>
             /\ ctl'.pc = "idle" /\ ctl'.result = "ok"
             /\ handles' = handles
             /\ chan' = chan /\ thread' = thread /\ joined' = joined
             /\ invoked' = invoked /\ sent' = sent]_vars
    /\ [](Returned("drop_join") /\ ctl.result = "ok" => ctl.cat \notin DOMAIN handles)

\* A teardown call found its category already torn down, while a worker of
\* another category was live with a token queued.
C5_Witness ==
    /\ Returned("drop_join") /\ ctl.result = "ok" /\ ~ctl.found
    /\ \E w \in RegisteredUnder(ctl.cat) : joined[w]
    /\ \E w \in InMap : thread[w] = "recv" /\ chan[w].queue = 1

\* ---------------------------------------------------------------- C6
\* C6: categories do not interfere.  A token reaches the channel of a worker
\* only in a step of signal running on the category the worker is registered
\* under, and a worker is never invoked more often than tokens reached it,
\* nor sent more tokens than signals were addressed to its category: so
\* signal(c) never causes an invocation of a worker of another category.
C6_NoInterference ==
    /\ [][\A w \in Workers :
             (sent'[w] # sent[w] \/ chan'[w].queue > chan[w].queue) =>
                 /\ ctl.pc = "sig_loop"
                 /\ ctl.cat = wcat[w]
                 /\ sent'[w] = sent[w] + 1]_vars
    /\ [](\A w \in Workers : invoked[w] <= sent[w] /\ sent[w] <= sigs[w])

\* signal(c) has returned with two categories registered: the worker of c has
\* been invoked, the worker of the other category has received nothing.
C6_Witness ==
    /\ Returned("signal") /\ ctl.result = "ok"
    /\ \E w \in InMap : wcat[w] = ctl.cat /\ invoked[w] = 1
    /\ \E w \in InMap : wcat[w] # ctl.cat /\ sent[w] = 0 /\ invoked[w] = 0
                          /\ thread[w] = "recv"

\* ---------------------------------------------------------------- C7
\* The step is a call signal_all() while the mapping has no key.
SignalAllEmptyCall ==
    /\ ctl.pc = "idle"
    /\ nsig' # nsig
    /\ ctl'.op = "signal_all"
    /\ DOMAIN handles = {}

\* C7 as stated: signal_all() does what one signal(k) per present key does:
\* it returns without the unknown-category error, and from it every handle
\* stored in the mapping has received exactly one token and no other worker
\* any.
C7_SignalAllOneTokenEach ==
    Returned("signal_all") =>
        /\ ctl.result = "ok"
        /\ \A w \in Workers : ctl.got[w] = IF w \in InMap THEN 1 ELSE 0

\* What the code does guarantee: signal_all() never ends in the
\* unknown-category error, it is a no-op on an empty mapping, and from it
\* every stored handle has received at most one token, exactly one if its
\* worker has not panicked; a handle that received none had a send fail.
C7_SignalAllOneTokenEachAlive ==
    /\ [](Returned("signal_all") =>
             /\ ctl.result = "ok"
             /\ \A w \in Workers :
                   /\ w \notin InMap => ctl.got[w] = 0
                   /\ w \in InMap =>
                         /\ ctl.got[w] <= 1
                         /\ thread[w] # "panicked" => ctl.got[w] = 1
                         /\ ctl.got[w] = 0 => ctl.failed)
    /\ [][SignalAllEmptyCall =>
             /\ ctl'.pc = "idle" /\ ctl'.result = "ok"
             /\ UNCHANGED <<handles, chan, thread, joined, invoked, sent>>]_vars

\* signal_all() has returned with both categories registered and every
\* worker alive: each received one token.
C7_Witness ==
    /\ Returned("signal_all") /\ ctl.result = "ok"
    /\ DOMAIN handles = Categories
    /\ \A w \in InMap : ctl.got[w] = 1 /\ thread[w] # "panicked"

\* ---------------------------------------------------------------- C8
\* C8: a teardown that joined a thread whose callback had panicked (join()
\* returned Err) does not end like a teardown of cleanly finished workers:
\* it reports an error to its caller.
C8_CrashSurfacedByTeardown ==
    (Returned("drop_join") /\ ctl.failed) => ctl.result # "ok"

\* ---------------------------------------------------------------- C9
\* C9: a signal or signal_all call one of whose sends failed (send() returned
\* Err because the worker's receiver is gone) reports the failure to its
\* caller instead of returning normally.
C9_SendFailureSurfaced ==
    ((Returned("signal") \/ Returned("signal_all")) /\ ctl.failed) => ctl.result # "ok"

\* ---------------------------------------------------------------- C10
\* The step is one of the steps of a register_static call.
RegisterStep == ctl' # ctl /\ ctl'.op = "register"

\* The handle the running register_static call has created.
RegisterHandle == IF ctl.pc = "idle" THEN ctl'.th ELSE ctl.th

\* C10: a register_static(c, ..) call invokes no callback and leaves every
\* existing worker's channel, queued tokens and thread as they are; it keeps
\* every other category's sequence, keeps the handles already in c at their
\* positions, creates c (empty) only when c is absent, and on return has
\* appended exactly one handle, new and live, at the end of c's sequence.
C10_RegisterFrame ==
    [][RegisterStep =>
          /\ invoked' = invoked /\ sent' = sent /\ joined' = joined
          /\ \A w \in Workers :
                thread[w] # "none" => chan'[w] = chan[w] /\ thread'[w] = thread[w]
          /\ DOMAIN handles \subseteq DOMAIN handles'
          /\ DOMAIN handles' \subseteq DOMAIN handles \cup {ctl'.cat}
          /\ \A k \in DOMAIN handles :
                IF k = ctl'.cat
                THEN /\ Len(handles'[k]) >= Len(handles[k])
                     /\ \A j \in 1..Len(handles[k]) : handles'[k][j] = handles[k][j]
                ELSE handles'[k] = handles[k]
          /\ ctl.pc = "idle" =>
                /\ handles' = handles
                /\ RegisterHandle.join_handle \notin InMap
                /\ thread[RegisterHandle.join_handle] = "none"
          /\ ctl.pc = "reg_lazy" =>
                /\ ctl'.cat \in DOMAIN handles => handles' = handles
                /\ ctl'.cat \notin DOMAIN handles => handles'[ctl'.cat] = <<>>
          /\ ctl.pc = "reg_push" =>
                /\ ctl'.pc = "idle" /\ ctl'.result = "ok"
                /\ ctl'.cat \in DOMAIN handles
                /\ handles'[ctl'.cat] = Append(handles[ctl'.cat], RegisterHandle)
                /\ RegisterHandle.sx = RegisterHandle.join_handle
                /\ RegisterHandle.sx # None
                /\ thread'[RegisterHandle.sx] \in {"recv"}
                /\ chan'[RegisterHandle.sx] = [queue |-> 0, sx |-> TRUE, rx |-> TRUE]
       ]_vars

\* register_static has returned having appended a second handle to a
\* category whose first worker still has a token queued.
C10_Witness ==
    /\ Returned("register") /\ ctl.result = "ok"
    /\ Len(handles[ctl.cat]) = 2
    /\ chan[handles[ctl.cat][1].sx].queue = 1
    /\ thread[handles[ctl.cat][2].sx] = "recv"
    /\ sent[handles[ctl.cat][2].sx] = 0

\* ---------------------------------------------------------------- C11
\* The controller is inside the public operation op.
Inside(op) == ctl.op = op /\ ctl.pc # "idle"

\* C11: with threads scheduled fairly and every callback invocation ending,
\* every drop_join_category call eventually returns; when it has, every
\* worker of the category has ended and been joined, and each one that left
\* its loop on the closed channel had drained its queue before.
C11_TeardownReturns ==
    /\ Inside("drop_join") ~> Returned("drop_join")
    /\ [](Returned("drop_join") =>
            \A w \in RegisteredUnder(ctl.cat) :
                /\ joined[w]
                /\ thread[w] \in {"exited", "panicked"}
                /\ thread[w] = "exited" =>
                       chan[w].queue = 0 /\ invoked[w] = sent[w])

\* A teardown has returned that had to wait for its worker: the worker was
\* sent two tokens and took both before it saw the channel closed.
C11_Witness ==
    /\ Returned("drop_join") /\ ctl.found /\ ~ctl.failed
    /\ \E w \in RegisteredUnder(ctl.cat) :
          joined[w] /\ thread[w] = "exited" /\ invoked[w] = 2 /\ sigs[w] = 2

\* ---------------------------------------------------------------- C12
\* Workers of a torn-down generation of category c.
OldGen(c) == {w \in Workers : wcat[w] = c /\ joined[w]}

\* Category c is in the mapping again after a teardown of the same name.
Reused(c) == c \in DOMAIN handles /\ OldGen(c) # {}

\* Every record of category c is the handle of a worker registered under c
\* whose thread has not been joined.
OnlyNewWorkers(c) ==
    \A j \in DOMAIN handles[c] :
        /\ handles[c][j].join_handle \in Workers
        /\ handles[c][j].sx = handles[c][j].join_handle
        /\ ~joined[handles[c][j].join_handle]
        /\ wcat[handles[c][j].join_handle] = c

\* C12: a name that was torn down can be registered again.  The reused
\* category holds only workers registered since; a joined worker is never
\* sent to or invoked again; the first signal after the registration gives
\* each new worker exactly one token, which it takes exactly once.
C12_ReuseAfterTeardown ==
    /\ [](Returned("register") /\ Reused(ctl.cat) => OnlyNewWorkers(ctl.cat))
    /\ [][\A w \in Workers :
            joined[w] => invoked'[w] = invoked[w] /\ sent'[w] = sent[w]]_vars
    /\ [](Returned("signal") /\ ctl.result = "ok" /\ Reused(ctl.cat) =>
            \A w \in InSeq(handles[ctl.cat]) :
                sigs[w] = 1 => sent[w] = 1 /\ ctl.got[w] = 1 /\ invoked[w] <= 1)
    /\ \A w \in Workers : (sigs[w] = 1 /\ sent[w] = 1) ~> (invoked[w] >= 1)

\* "testing" was torn down with worker 1 in it, registered again with worker
\* 2, and signalled once: worker 2 has been invoked once, worker 1 not again.
C12_Witness ==
    /\ Returned("signal") /\ Reused(ctl.cat)
    /\ \E w \in InSeq(handles[ctl.cat]), o \in OldGen(ctl.cat) :
          /\ w # o
          /\ sigs[w] = 1 /\ invoked[w] = 1
          /\ sigs[o] = 1 /\ invoked[o] = 1

\* ---------------------------------------------------------------- C13
\* A handle record with both fields present, of a thread not yet joined.
Live(h) ==
    /\ h.join_handle \in Workers
    /\ h.sx = h.join_handle
    /\ chan[h.sx].sx
    /\ ~joined[h.join_handle]

\* The thread of a live record is in its loop.
Looping(h) == thread[h.join_handle] \in {"recv", "callback"}

\* The record that teardown is working on has been moved out of the vector.
TakenOut == Inside("drop_join") /\ ctl.pc \in {"dj_drop", "dj_join"}

\* C13 as stated: every record is live (both fields present, thread looping)
\* or retired (both absent, thread terminated and joined), in every state.
\* The record moved out of the vector by mem::take is a handle record too.
C13_LiveOrRetired ==
    /\ \A c \in DOMAIN handles : \A j \in DOMAIN handles[c] :
          \/ Live(handles[c][j]) /\ Looping(handles[c][j])
          \/ /\ handles[c][j] = DefaultHandle
             /\ TakenOut /\ ctl.cat = c /\ ctl.i = j
                  => /\ ctl.th.join_handle \in Workers
                     /\ joined[ctl.th.join_handle]
    /\ TakenOut => (ctl.th.sx = None) = (ctl.th.join_handle = None)

\* C13 (amended): a record stored in the mapping never has exactly one field
\* present.  Between public operations every stored record is live, its
\* thread looping or ended by a panic of its callback.  Inside
\* drop_join_category the records before the current one are default, those
\* after it live; the current one is replaced by the default record while
\* its thread is still unjoined, and the handle moved out keeps its join
\* handle alone once its sender is dropped.  When the last join has returned
\* every record of the category is default and every thread registered
\* under it has been joined.
C13_LiveOrTakenOut ==
    /\ \A c \in DOMAIN handles : \A j \in DOMAIN handles[c] :
          Live(handles[c][j]) \/ handles[c][j] = DefaultHandle
    /\ \A c \in DOMAIN handles : \A j \in DOMAIN handles[c] :
          IF Inside("drop_join") /\ ctl.cat = c
          THEN CASE ctl.pc = "dj_remove" -> handles[c][j] = DefaultHandle
                 [] j < ctl.i -> handles[c][j] = DefaultHandle
                 [] j > ctl.i -> Live(handles[c][j])
                 [] OTHER -> (ctl.pc = "dj_take") = Live(handles[c][j])
          ELSE Live(handles[c][j])
    /\ ctl.pc = "dj_drop" => Live(ctl.th)
    /\ ctl.pc = "dj_join" =>
          /\ ctl.th.sx = None /\ ctl.th.join_handle \in Workers
          /\ ~chan[ctl.th.join_handle].sx /\ ~joined[ctl.th.join_handle]
    /\ ctl.pc = "dj_remove" =>
          \A w \in RegisteredUnder(ctl.cat) : joined[w]

\* Teardown has moved a record out of the vector and dropped its sender; the
\* thread is still in its callback, the vector holds the default record.
C13_Witness ==
    /\ ctl.pc = "dj_join"
    /\ handles[ctl.cat][ctl.i] = DefaultHandle
    /\ thread[ctl.th.join_handle] = "callback"

\* ---------------------------------------------------------------- C14
\* C14: between public operations every record in the mapping has its sender
\* present and its thread not yet joined; hence signal never comes to a
\* record without a sender, and drop_join_category never comes to a record
\* without a join handle or to a thread already joined.
C14_OnlyLiveBetweenOperations ==
    /\ ctl.pc = "idle" =>
          \A c \in DOMAIN handles : \A j \in DOMAIN handles[c] :
              /\ handles[c][j].sx # None
              /\ handles[c][j].join_handle # None
              /\ ~joined[handles[c][j].join_handle]
    /\ ctl.pc = "sig_loop" => handles[ctl.cat][ctl.i].sx # None
    /\ ctl.pc = "dj_join" =>
          ctl.th.join_handle # None /\ ~joined[ctl.th.join_handle]
    /\ Returned("signal") /\ ctl.result = "panic" => ~ctl.found
    /\ Returned("drop_join") => ctl.result = "ok"

\* A teardown of one category has returned while the other category is
\* still registered, after both were signalled.
C14_Witness ==
    /\ Returned("drop_join") /\ ctl.found /\ nsig >= 1
    /\ \E c \in DOMAIN handles : c # ctl.cat /\ Len(handles[c]) >= 1
    /\ \E w \in Workers : joined[w] /\ wcat[w] = ctl.cat

\* ---------------------------------------------------------------- C15
\* C15: between public operations every key of the mapping maps to a
\* non-empty vector; a key maps to the empty vector only inside
\* register_static, between lazy_init_category and the push; and when
\* drop_join_category has returned its category is no key of the mapping.
C15_NoEmptyCategory ==
    /\ ctl.pc = "idle" => \A c \in DOMAIN handles : Len(handles[c]) >= 1
    /\ \A c \in DOMAIN handles :
          Len(handles[c]) = 0 =>
              ctl.pc = "reg_push" /\ ctl.op = "register" /\ ctl.cat = c
    /\ Returned("drop_join") => ctl.cat \notin DOMAIN handles

\* register_static has created the category and not yet pushed the handle,
\* on a name that was torn down before.
C15_Witness ==
    /\ ctl.pc = "reg_push"
    /\ Len(handles[ctl.cat]) = 0
    /\ \E w \in Workers : joined[w] /\ wcat[w] = ctl.cat

\* ---------------------------------------------------------------- C16
\* A send() call of the direct scenario returns in this step.
SendReturns == ctl.pc = "t_send" /\ ctl'.i = ctl.i + 1

\* The token of the returning send() is put into the buffer.
Enqueued ==
    /\ chan'[ctl.th.sx].queue = chan[ctl.th.sx].queue + 1
    /\ sent'[ctl.th.sx] = sent[ctl.th.sx] + 1

\* C16 as stated: no queue ever holds more than 60 tokens; no send() returns
\* while the queue holds 60; a send() that was parked on a full queue
\* returns only with the receiver alive, and its token is put into the buffer.
C16_Backpressure ==
    /\ [](\A w \in Workers : chan[w].queue <= Capacity)
    /\ [][SendReturns => chan[ctl.th.sx].queue < Capacity]_vars
    /\ [][SendReturns /\ ctl.blocked => chan[ctl.th.sx].rx /\ Enqueued]_vars

\* C16 (amended): no queue ever holds more than 60 tokens; no send() returns
\* while the queue holds 60; a send() that was parked on a full queue returns
\* either with its token put into the buffer, the worker having made room,
\* or, the worker's callback having panicked, with Err and its token
\* dropped like the tokens that were buffered.
C16_BackpressureUnlessPanic ==
    /\ [](\A w \in Workers : chan[w].queue <= Capacity)
    /\ [][SendReturns => chan[ctl.th.sx].queue < Capacity]_vars
    /\ [][SendReturns /\ ctl.blocked =>
            \/ chan[ctl.th.sx].rx /\ Enqueued /\ invoked[ctl.th.sx] >= ctl.i + 1 - Capacity
            \/ /\ thread[ctl.th.sx] = "panicked" /\ ~chan[ctl.th.sx].rx
               /\ chan'[ctl.th.sx].queue = 0 /\ sent' = sent /\ ctl'.failed]_vars

\* All 62 sends of a burst have returned with the queue full again: the
\* 61st and the 62nd each had to wait for the worker to take a token.
C16_Witness ==
    /\ ctl.pc = "t_send" /\ ctl.i = Capacity + 2 /\ sent[1] = Capacity + 2
    /\ chan[1].queue = Capacity /\ invoked[1] = 2

\* ---------------------------------------------------------------- C17
\* The records of the category under teardown that the loop has not come to.
Later == {j \in DOMAIN handles[ctl.cat] : j > ctl.i}

\* The step removes the category under teardown from the mapping.
RemovesCategory ==
    /\ ctl.op = "drop_join"
    /\ ctl.cat \in DOMAIN handles
    /\ ctl.cat \notin DOMAIN handles'

\* Every thread registered under the category under teardown has ended and
\* been joined.
AllJoined ==
    \A w \in RegisteredUnder(ctl.cat) :
        joined[w] /\ thread[w] \in {"exited", "panicked"}

\* C17 as stated: whenever drop_join_category is at a join, every sender of
\* the category has been dropped; and the category is removed only after
\* every thread has been joined.
C17_AllDroppedBeforeFirstJoin ==
    /\ [](ctl.pc = "dj_join" =>
            /\ \A j \in DOMAIN handles[ctl.cat] : handles[ctl.cat][j].sx = None
            /\ \A w \in RegisteredUnder(ctl.cat) : ~chan[w].sx)
    /\ [][RemovesCategory => AllJoined]_vars

\* C17 (amended): senders are dropped one handle at a time.  At each join
\* the sender of the handle being joined has been dropped, the handles
\* after it still hold their senders and their channels are open; the
\* category is removed only after every thread has been joined.
C17_DroppedOneByOne ==
    /\ [](ctl.pc = "dj_join" =>
            /\ ~chan[ctl.th.join_handle].sx
            /\ \A j \in Later :
                  /\ handles[ctl.cat][j].sx \in Workers
                  /\ chan[handles[ctl.cat][j].sx].sx
                  /\ ~joined[handles[ctl.cat][j].sx])
    /\ [][RemovesCategory => AllJoined]_vars

\* The first join of a category of two handles is waiting for its thread;
\* the second handle still has its sender.
C17_Witness ==
    /\ ctl.pc = "dj_join" /\ ctl.i = 1
    /\ Len(handles[ctl.cat]) = 2
    /\ thread[ctl.th.join_handle] \in {"recv", "callback"}
    /\ handles[ctl.cat][2].sx # None

\* A category of two handles has been removed, both threads joined.
C17_WitnessRemoved ==
    /\ Returned("drop_join") /\ ctl.found
    /\ Cardinality(RegisteredUnder(ctl.cat)) = 2
    /\ \A w \in RegisteredUnder(ctl.cat) : joined[w]

\* ---------------------------------------------------------------- C18
\* The step drops the sender of worker w.
DropsSender(w) == chan[w].sx /\ ~chan'[w].sx

\* The step is the return of the join on worker w's thread.
Joins(w) == ~joined[w] /\ joined'[w]

\* C18: for each handle drop_join_category processes, the sender is taken
\* and dropped before the join on its thread begins: a sender is dropped
\* only of a thread not yet joined, by the statement before the join; while
\* teardown is at the join, waiting or not, the handle has no sender and the
\* channel is closed; and a join returns only on a closed channel.
C18_SenderDroppedBeforeJoin ==
    /\ [][\A w \in Workers :
            DropsSender(w) /\ ctl.op = "drop_join" =>
                /\ ctl.pc = "dj_drop" /\ ctl'.pc = "dj_join"
                /\ ctl.th.join_handle = w /\ ~joined[w]]_vars
    /\ [](ctl.pc = "dj_join" =>
            /\ ctl.th.sx = None
            /\ ctl.th.join_handle \in Workers
            /\ ~chan[ctl.th.join_handle].sx)
    /\ [][\A w \in Workers :
            Joins(w) /\ ctl.op = "drop_join" =>
                ctl.th.join_handle = w /\ ~chan[w].sx /\ ~chan'[w].sx]_vars

\* Teardown is waiting in join for a thread that is in its callback with a
\* token still buffered; the sender is gone.
C18_Witness ==
    /\ ctl.pc = "dj_join"
    /\ thread[ctl.th.join_handle] = "callback"
    /\ chan[ctl.th.join_handle].queue = 1
    /\ ~chan[ctl.th.join_handle].sx

\* ---------------------------------------------------------------- C19
\* C19: a worker has started at most as many invocations as tokens were
\* sent to its channel, and each token causes at most one: the invocations
\* started and the tokens still buffered together never exceed the tokens
\* sent, and every invocation takes one token out of the buffer.  A worker
\* never signalled has received no token and has been invoked zero times.
C19_InvokedAtMostSent ==
    /\ [](\A w \in Workers :
            /\ chan[w].queue >= 0
            /\ invoked[w] + chan[w].queue <= sent[w]
            /\ sigs[w] = 0 => sent[w] = 0 /\ invoked[w] = 0)
    /\ [][\A w \in Workers :
            invoked'[w] # invoked[w] =>
                /\ invoked'[w] = invoked[w] + 1
                /\ chan'[w].queue = chan[w].queue - 1
                /\ sent'[w] = sent[w]]_vars

\* One worker was signalled twice and invoked twice; the other, registered
\* under another category, was never signalled and never invoked.
C19_Witness ==
    \E w, v \in Workers :
        /\ thread[w] = "recv" /\ sigs[w] = 0 /\ invoked[w] = 0
        /\ wcat[v] # wcat[w] /\ sent[v] = 2 /\ invoked[v] = 2

\* ---------------------------------------------------------------- C20
\* A signalling call is at a send() that cannot return yet: the target's
\* buffer is full and its receiver alive.
SendWaits ==
    /\ ctl.pc = "sig_loop"
    /\ handles[ctl.cat][ctl.i].sx # None
    /\ ~CanSend(handles[ctl.cat][ctl.i].sx)

\* C20: with threads scheduled fairly and every callback invocation ending,
\* every signal and signal_all call on existing categories eventually
\* returns, and a send() waiting on a full buffer is eventually let go.
C20_SignalReturns ==
    /\ Inside("signal") ~> Returned("signal")
    /\ Inside("signal_all") ~> Returned("signal_all")
    /\ SendWaits ~> ~SendWaits

\* A signal_all call is waiting on the full buffer of its target, whose
\* thread is in its first callback invocation.
C20_Witness ==
    /\ SendWaits /\ ctl.op = "signal_all"
    /\ chan[handles[ctl.cat][ctl.i].sx].queue = Capacity
    /\ invoked[handles[ctl.cat][ctl.i].sx] = 1

\* The 62nd signalling call has returned: two of the calls could only
\* return after the worker had taken a token.
C20_WitnessReturned ==
    /\ Returned("signal") /\ ctl.result = "ok" /\ ~ctl.failed
    /\ nsig = Capacity + 2 /\ sent[1] = Capacity + 2
====
